---- MODULE Spec2Model ----
(***************************************************************************)
(* Model of the admin (management) application of solokeys/admin-app:      *)
(* src/src/admin.rs.  One endpoint `App` is reachable over the CTAPHID     *)
(* vendor channel (hid::App) and over the APDU channel (apdu::App).  The   *)
(* model covers the command resolver (the three TryFrom impls), the        *)
(* executor (App::exec), both adapters and the error conversions.          *)
(*                                                                         *)
(* Encodings.  Option<u8> is a sequence of length <= 1 (None = << >>,      *)
(* Some(b) = <<b>>).  Result<T, E> is a record [ok, val].  A u32 is a      *)
(* record [hi, lo] of two 16-bit halves (TLC integers are 32-bit signed).  *)
(* A HidCommand is a record [tag, code]; code is the wire byte.            *)
(***************************************************************************)
EXTENDS Integers, Sequences, FiniteSets, TLC

VARIABLES
    uuid,       \* App.uuid: [u8; 16]
    version,    \* App.version: u32
    new_args,   \* the (uuid, version) arguments of the last App::new
    running,    \* FALSE once a `-> !` reboot function was entered
    op,         \* the last operation performed on the endpoint
    req,        \* the inputs of that operation
    reply_in,   \* the caller's response buffer when the operation started
    reply,      \* the caller's response buffer when it ended
    result,     \* what the operation returned ("Diverged": it did not return)
    calls,      \* collaborator functions invoked by the operation, in order
    exec_rec,   \* << >>, or <<[command, flag, result]>> when exec was entered
    rbyte,      \* resolver harness: the byte given to Command::try_from
    rcmd        \* resolver harness: what Command::try_from returned

vars == <<uuid, version, new_args, running, op, req, reply_in, reply, result,
          calls, exec_rec, rbyte, rcmd>>

----------------------------------------------------------------------------
\* Program constants (admin.rs:12-29)

USER_PRESENCE_TIMEOUT_SECS == 15

ADMIN == 114

UPDATE == 81

REBOOT == 83

RNG == 96

VERSION == 97

UUID == 98

LOCKED == 99

WINK == [tag |-> "Wink", code |-> 8]

RNG_DATA_LEN == 57

\* Duration::from_secs(10) of the wink syscall
WINK_SECS == 10

----------------------------------------------------------------------------
\* Bounds of the model

\* Capacity N of the caller's response buffer (Vec<u8, N>)
Capacity == 60

----------------------------------------------------------------------------
\* Small helpers for the encodings

None == << >>

Some(b) == <<b>>

Ok(v) == [ok |-> TRUE, val |-> v]

Err(e) == [ok |-> FALSE, val |-> e]

\* slice::first(): Option<&u8>
first(s) == IF Len(s) = 0 THEN None ELSE Some(s[1])

\* slice::split_first(): Option<(&u8, &[u8])>, as << >> or <<head, tail>>
split_first(s) == IF Len(s) = 0 THEN << >> ELSE <<s[1], Tail(s)>>

\* HidCommand::Vendor(VendorCommand)
Vendor(c) == [tag |-> "Vendor", code |-> c]

\* The standard (non-vendor) CTAPHID commands
StdHidCommand(b) ==
    CASE b = 1  -> "Ping"
      [] b = 3  -> "Msg"
      [] b = 4  -> "Lock"
      [] b = 6  -> "Init"
      [] b = 8  -> "Wink"
      [] b = 16 -> "Cbor"
      [] b = 17 -> "Cancel"
      [] b = 59 -> "KeepAlive"
      [] b = 63 -> "Error"
      [] OTHER  -> "none"

\* HidCommand::try_from(u8): a standard command, a vendor command
\* (0x40..=0x7f), or an error
HidCommand_try_from(b) ==
    IF StdHidCommand(b) # "none" THEN Ok([tag |-> StdHidCommand(b), code |-> b])
    ELSE IF b >= 64 /\ b <= 127 THEN Ok(Vendor(b))
    ELSE Err("()")

----------------------------------------------------------------------------
\* Command resolver

\* impl TryFrom<VendorCommand> for Command
Command_try_from_VendorCommand(command) ==
    CASE command = UPDATE  -> Ok("Update")
      [] command = REBOOT  -> Ok("Reboot")
      [] command = RNG     -> Ok("Rng")
      [] command = VERSION -> Ok("Version")
      [] command = UUID    -> Ok("Uuid")
      [] command = LOCKED  -> Ok("Locked")
      [] OTHER             -> Err("UnsupportedCommand")

\* Mutant: the WINK arm taken as a binding pattern, which matches everything
Command_try_from_HidCommand_binding(command) == Ok("Wink")

\* impl TryFrom<HidCommand> for Command
Command_try_from_HidCommand(command) ==
    CASE command = WINK         -> Ok("Wink")
      [] command.tag = "Vendor" -> Command_try_from_VendorCommand(command.code)
      [] OTHER                  -> Err("UnsupportedCommand")

\* Mutant: the byte is tried as a vendor command only
Command_try_from_u8_vendor_only(command) ==
    IF command >= 64 /\ command <= 127
    THEN Command_try_from_VendorCommand(command)
    ELSE Err("UnsupportedCommand")

\* impl TryFrom<u8> for Command
Command_try_from_u8(command) ==
    LET h == HidCommand_try_from(command) IN
    IF h.ok /\ Command_try_from_HidCommand(h.val).ok
    THEN Command_try_from_HidCommand(h.val)
    ELSE Err("UnsupportedCommand")

----------------------------------------------------------------------------
\* Error conversions

\* impl From<Error> for hid::Error
hid_Error_from(error) ==
    CASE error = "InvalidLength"      -> "InvalidLength"
      [] error = "NotAvailable"       -> "InvalidLength"
      [] error = "UnsupportedCommand" -> "InvalidCommand"

\* impl From<Error> for Status
Status_from(error) ==
    CASE error = "InvalidLength"      -> "WrongLength"
      [] error = "NotAvailable"       -> "ConditionsOfUseNotSatisfied"
      [] error = "UnsupportedCommand" -> "InstructionNotSupportedOrInvalid"

----------------------------------------------------------------------------
\* The response buffer: heapless Vec<u8, N>

\* Vec::push(b).ok(): appends when there is room, else leaves the vector
push(vec, b) == IF Len(vec) < Capacity THEN Append(vec, b) ELSE vec

\* Mutant: appends the bytes that fit
extend_from_slice_partial(vec, other) ==
    vec \o SubSeq(other, 1, IF Len(other) <= Capacity - Len(vec)
                            THEN Len(other) ELSE Capacity - Len(vec))

\* Vec::extend_from_slice(other).ok(): heapless appends the whole slice when
\* len + other.len() <= capacity, else returns Err(()) and leaves the vector
\* as it is; .ok() discards the error
extend_from_slice(vec, other) ==
    IF Len(vec) + Len(other) > Capacity THEN vec ELSE vec \o other

\* Mutant: little-endian
to_le_bytes(v) == <<v.lo % 256, v.lo \div 256, v.hi % 256, v.hi \div 256>>

\* u32::to_be_bytes
to_be_bytes(v) == <<v.hi \div 256, v.hi % 256, v.lo \div 256, v.lo % 256>>

\* bool -> u8 (`R::locked().into()`)
bool_into_u8(l) == IF l THEN 1 ELSE 0

----------------------------------------------------------------------------
\* Collaborators.  A call is logged as [fn, arg, ret]; ret is << >> (no
\* value), <<TRUE>> / <<FALSE>>, or the bytes returned.

Call(f, a, r) == [fn |-> f, arg |-> a, ret |-> r]

\* The answers trussed.random_bytes(count) may give: count bytes
random_bytes(count) ==
    {[i \in 1..count |-> (i * k) % 256] : k \in {1, 3}}

\* An outcome of a handler
Outcome(res, response, cs, er) ==
    [result |-> res, response |-> response, calls |-> cs, exec_rec |-> er]

----------------------------------------------------------------------------
\* Executor

\* Mutant: any non-zero flag selects the destructive variant
update_variant_nonzero(flag) ==
    IF flag # None /\ flag # Some(0) THEN "reboot_to_firmware_update_destructive"
    ELSE "reboot_to_firmware_update"

\* The firmware-entry function Update picks from the flag (admin.rs:173-177)
update_variant(flag) ==
    IF flag = Some(1) THEN "reboot_to_firmware_update_destructive"
    ELSE "reboot_to_firmware_update"

\* App::user_present: the syscall and its argument
user_present_call(present) ==
    Call("confirm_user_present", USER_PRESENCE_TIMEOUT_SECS * 1000,
         <<present>>)

\* Mutant: the answer of the presence check is ignored
exec_Update_unchecked(flag, response) ==
    { [result |-> "Diverged", response |-> response,
       calls |-> <<user_present_call(present),
                   Call(update_variant(flag), 0, << >>)>>]
      : present \in BOOLEAN }

\* Command::Update arm of exec
exec_Update(flag, response) ==
    { IF present
      THEN [result |-> "Diverged", response |-> response,
            calls |-> <<user_present_call(present),
                        Call(update_variant(flag), 0, << >>)>>]
      ELSE [result |-> "NotAvailable", response |-> response,
            calls |-> <<user_present_call(present)>>]
      : present \in BOOLEAN }

\* Command::Locked arm of exec
exec_Locked(response) ==
    { [result |-> "Ok", response |-> push(response, bool_into_u8(l)),
       calls |-> <<Call("locked", 0, <<l>>)>>]
      : l \in BOOLEAN }

\* Command::Rng arm of exec
exec_Rng(response) ==
    { [result |-> "Ok", response |-> extend_from_slice(response, bytes),
       calls |-> <<Call("random_bytes", RNG_DATA_LEN, bytes)>>]
      : bytes \in random_bytes(RNG_DATA_LEN) }

\* App::exec: the set of its possible outcomes [result, response, calls];
\* result is "Ok", an Error, or "Diverged" when a `-> !` function was entered
exec(self, command, flag, response) ==
    CASE command = "Reboot" ->
           {[result |-> "Diverged", response |-> response,
             calls |-> <<Call("reboot", 0, << >>)>>]}
      [] command = "Locked" -> exec_Locked(response)
      [] command = "Rng" -> exec_Rng(response)
      [] command = "Update" -> exec_Update(flag, response)
      [] command = "Uuid" ->
           {[result |-> "Ok",
             response |-> extend_from_slice(response, self.uuid),
             calls |-> << >>]}
      [] command = "Version" ->
           {[result |-> "Ok",
             response |-> extend_from_slice(response, to_be_bytes(self.version)),
             calls |-> << >>]}
      [] command = "Wink" ->
           {[result |-> "Ok", response |-> response,
             calls |-> <<Call("wink", WINK_SECS, << >>)>>]}

\* exec(..).map_err(From::from): the outcome as the adapter returns it; the
\* return type picks the conversion (hid::Error on the vendor channel,
\* Status on the smartcard channel)
map_err(o, channel, command, flag) ==
    Outcome(IF o.result \in {"Ok", "Diverged"} THEN o.result
            ELSE IF channel = "hid" THEN hid_Error_from(o.result)
            ELSE Status_from(o.result),
            o.response, o.calls,
            <<[command |-> command, flag |-> flag, result |-> o.result]>>)

----------------------------------------------------------------------------
\* Vendor-channel adapter (hid::App)

\* hid::App::commands, as wire bytes
commands == {WINK.code, ADMIN, UPDATE, REBOOT, RNG, VERSION, UUID, LOCKED}

\* Mutant: under ADMIN the flag is read from the payload's first byte
hid_select_first_byte(command, input_data) ==
    LET c == IF command = Vendor(ADMIN)
             THEN IF Len(input_data) = 0 THEN Err("InvalidLength")
                  ELSE Command_try_from_u8(input_data[1])
             ELSE Command_try_from_HidCommand(command) IN
    IF c.ok THEN Ok(<<c.val, first(input_data)>>) ELSE c

\* The (command, flag) selection of hid::App::call (admin.rs:217-225):
\* Ok(<<command, flag>>) or Err(error)
hid_select(command, input_data) ==
    IF command = Vendor(ADMIN)
    THEN LET sf == split_first(input_data) IN
         IF sf = << >> THEN Err("InvalidLength")
         ELSE LET c == Command_try_from_u8(sf[1]) IN
              IF c.ok THEN Ok(<<c.val, first(sf[2])>>) ELSE c
    ELSE LET c == Command_try_from_HidCommand(command) IN
         IF c.ok THEN Ok(<<c.val, first(input_data)>>) ELSE c

\* hid::App::call: the set of its possible outcomes
hid_call(self, command, input_data, response) ==
    LET s == hid_select(command, input_data) IN
    IF ~s.ok THEN {Outcome(hid_Error_from(s.val), response, << >>, << >>)}
    ELSE {map_err(o, "hid", s.val[1], s.val[2]) :
            o \in exec(self, s.val[1], s.val[2], response)}

----------------------------------------------------------------------------
\* Smartcard-channel adapter (apdu::App)

\* Mutant: no gate
reboot_refused_never(command, interface) == FALSE

\* Mutant: the gate also covers Update
reboot_refused_resets(command, interface) ==
    command \in {"Reboot", "Update"} /\ interface # "Contact"

\* The interface gate of apdu::App::call (admin.rs:256)
reboot_refused(command, interface) ==
    command = "Reboot" /\ interface # "Contact"

\* Mutant: select answers with the version
select_version(self, apdu, reply_buf) ==
    {Outcome("Ok", extend_from_slice(reply_buf, to_be_bytes(self.version)),
             << >>, << >>)}

\* apdu::App::select
select(self, apdu, reply_buf) == {Outcome("Ok", reply_buf, << >>, << >>)}

\* apdu::App::call: the set of its possible outcomes.  apdu.instruction is
\* the instruction byte (`apdu.instruction().into()`).
apdu_call(self, interface, apdu, reply_buf) ==
    LET c == Command_try_from_u8(apdu.instruction) IN
    IF ~c.ok THEN {Outcome(Status_from(c.val), reply_buf, << >>, << >>)}
    ELSE IF reboot_refused(c.val, interface)
    THEN {Outcome("ConditionsOfUseNotSatisfied", reply_buf, << >>, << >>)}
    ELSE {map_err(o, "apdu", c.val, Some(apdu.p1)) :
            o \in exec(self, c.val, Some(apdu.p1), reply_buf)}

----------------------------------------------------------------------------
\* Inputs

Flags == {0, 1, 255}

\* Payload tails: the flag byte, absent, present, or followed by more
Tails == {<< >>} \cup {<<f>> : f \in Flags} \cup {<<0, 1>>}

LegacyCodes == {UPDATE, REBOOT, RNG, VERSION, UUID, LOCKED}

\* Raw commands the dispatcher may hand to hid::App::call, ADMIN aside
HidCodes == {Vendor(c) : c \in LegacyCodes \cup {127}}
            \cup {WINK, [tag |-> "Ping", code |-> 1]}

\* First payload bytes tried under ADMIN
InnerBytes == LegacyCodes \cup {WINK.code, ADMIN, 0}

HidRequests ==
    {<<c, t>> : c \in HidCodes, t \in Tails}
    \cup {<<Vendor(ADMIN), << >> >>}
    \cup {<<Vendor(ADMIN), <<b>> \o t>> : b \in InnerBytes, t \in Tails}

Instructions == LegacyCodes \cup {WINK.code, ADMIN, 0, 164}

Interfaces == {"Contact", "Contactless"}

\* The (uuid, version) pairs an App is constructed with: versions
\* 0x01020304 and 0xFFFE0100
Identities ==
    {[uuid |-> [i \in 1..16 |-> i], version |-> [hi |-> 258, lo |-> 772]],
     [uuid |-> [i \in 1..16 |-> 256 - i], version |-> [hi |-> 65534, lo |-> 256]]}

\* The caller's buffer as handed in: empty, nearly full, or full
Prefill(n) == [i \in 1..n |-> 238]

Buffers == {Prefill(n) : n \in {0, Capacity - 4, Capacity - 3, Capacity}}

NoReq == [code |-> 0, data |-> << >>, p1 |-> 0, interface |-> "none"]

----------------------------------------------------------------------------
\* The endpoint as a state machine

self_ == [uuid |-> uuid, version |-> version]

\* App::new
Constructed(a) ==
    /\ uuid' = a.uuid
    /\ version' = a.version
    /\ new_args' = a
    /\ running' = TRUE
    /\ op' = "new"
    /\ req' = NoReq
    /\ reply_in' = << >>
    /\ reply' = << >>
    /\ result' = "Ok"
    /\ calls' = << >>
    /\ exec_rec' = << >>

InitApp ==
    /\ \E a \in Identities :
         /\ uuid = a.uuid
         /\ version = a.version
         /\ new_args = a
    /\ running = TRUE
    /\ op = "new"
    /\ req = NoReq
    /\ reply_in = << >>
    /\ reply = << >>
    /\ result = "Ok"
    /\ calls = << >>
    /\ exec_rec = << >>

Init ==
    /\ InitApp
    /\ rbyte = 0
    /\ rcmd = Command_try_from_u8(0)

\* The device starts again after a reboot and constructs the App
New ==
    /\ ~running
    /\ \E a \in Identities : Constructed(a)
    /\ UNCHANGED <<rbyte, rcmd>>

\* What a handler leaves behind
Returned(name, r, buf, o) ==
    /\ op' = name
    /\ req' = r
    /\ reply_in' = buf
    /\ reply' = o.response
    /\ result' = o.result
    /\ calls' = o.calls
    /\ exec_rec' = o.exec_rec
    /\ running' = (o.result # "Diverged")
    /\ UNCHANGED <<uuid, version, new_args, rbyte, rcmd>>

HidCall ==
    /\ running
    /\ \E r \in HidRequests, buf \in Buffers :
         \E o \in hid_call(self_, r[1], r[2], buf) :
           Returned("hid_call",
                    [code |-> r[1].code, data |-> r[2], p1 |-> 0,
                     interface |-> "none"], buf, o)

ApduCall ==
    /\ running
    /\ \E ins \in Instructions, p1 \in Flags, i \in Interfaces, buf \in Buffers :
         \E o \in apdu_call(self_, i, [instruction |-> ins, p1 |-> p1], buf) :
           Returned("apdu_call",
                    [code |-> ins, data |-> << >>, p1 |-> p1, interface |-> i],
                    buf, o)

Select ==
    /\ running
    /\ \E p1 \in Flags, buf \in Buffers :
         \E o \in select(self_, [instruction |-> 164, p1 |-> p1], buf) :
           Returned("select",
                    [code |-> 164, data |-> << >>, p1 |-> p1,
                     interface |-> "none"], buf, o)

\* apdu::App::deselect
Deselect ==
    /\ running
    /\ Returned("deselect", NoReq, << >>, Outcome("Ok", << >>, << >>, << >>))

Next == New \/ HidCall \/ ApduCall \/ Select \/ Deselect

Spec == Init /\ [][Next]_vars

----------------------------------------------------------------------------
\* The resolver alone, over every byte

ResolveInit ==
    /\ InitApp
    /\ \E b \in 0..255 :
         /\ rbyte = b
         /\ rcmd = Command_try_from_u8(b)

Resolve ==
    /\ \E b \in 0..255 :
         /\ rbyte' = b
         /\ rcmd' = Command_try_from_u8(b)
    /\ UNCHANGED <<uuid, version, new_args, running, op, req, reply_in, reply,
                   result, calls, exec_rec>>

SpecResolve == ResolveInit /\ [][Resolve]_vars

----------------------------------------------------------------------------
\* Vocabulary of the properties, stated from the wire values

\* The seven bytes that name a command
Seven == {81, 83, 96, 97, 98, 99, 8}

CommandOfByte(b) ==
    CASE b = 81 -> "Update"
      [] b = 83 -> "Reboot"
      [] b = 96 -> "Rng"
      [] b = 97 -> "Version"
      [] b = 98 -> "Uuid"
      [] b = 99 -> "Locked"
      [] b = 8  -> "Wink"

IsDispatch == op \in {"hid_call", "apdu_call"}

Namespaced == op = "hid_call" /\ req.code = 114

\* The dispatch carries a command byte (all but ADMIN with an empty payload)
HasByte == IsDispatch /\ ~(Namespaced /\ req.data = << >>)

ReqByte == IF Namespaced THEN req.data[1] ELSE req.code

\* The flag the request carries: p1, or the byte after the command byte
ReqFlag ==
    IF op = "apdu_call" THEN <<req.p1>>
    ELSE LET t == IF Namespaced THEN Tail(req.data) ELSE req.data IN
         IF t = << >> THEN << >> ELSE <<t[1]>>

\* The dispatch asks for command `name`
Asks(name) == HasByte /\ ReqByte \in Seven /\ CommandOfByte(ReqByte) = name

CallNames == {calls[i].fn : i \in 1..Len(calls)}

RebootFns == {"reboot", "reboot_to_firmware_update",
              "reboot_to_firmware_update_destructive"}

\* The operation neither entered exec, nor called a collaborator, nor
\* touched the buffer, and it returned
Untouched ==
    /\ calls = << >>
    /\ exec_rec = << >>
    /\ reply = reply_in
    /\ running

PresenceAsked ==
    /\ Len(calls) >= 1
    /\ calls[1].fn = "confirm_user_present"
    /\ calls[1].arg = 15000

Appended == SubSeq(reply, Len(reply_in) + 1, Len(reply))

Room == Capacity - Len(reply_in)

\* The buffer before the operation is a prefix of the buffer after it
AppendOnly ==
    /\ Len(reply) >= Len(reply_in)
    /\ SubSeq(reply, 1, Len(reply_in)) = reply_in

LastOutcome == Outcome(result, reply, calls, exec_rec)

----------------------------------------------------------------------------
\* C1: on the smartcard channel a Reboot (instruction 0x53) over an interface
\* other than Contact fails with ConditionsOfUseNotSatisfied for every p1;
\* no reboot capability and no client call is made, exec is not entered and
\* the reply buffer is unchanged.
C1_RebootRefusedOffContact ==
    (op = "apdu_call" /\ req.code = 83 /\ req.interface # "Contact") =>
        /\ result = "ConditionsOfUseNotSatisfied"
        /\ CallNames \cap RebootFns = {}
        /\ Untouched

C1_Witness ==
    /\ op = "apdu_call"
    /\ req.code = 83
    /\ req.interface = "Contactless"
    /\ req.p1 = 1
    /\ Len(reply_in) > 0
    /\ result = "ConditionsOfUseNotSatisfied"

\* C2: an Update whose presence confirmation is not confirmed fails in exec
\* with NotAvailable, invokes no reboot function, appends nothing, and is
\* reported as ConditionsOfUseNotSatisfied on the smartcard channel and as
\* InvalidLength on the vendor channel, for every flag.
C2_UpdateWithoutPresence ==
    Asks("Update") =>
        /\ PresenceAsked
        /\ calls[1].ret = <<FALSE>> =>
             /\ Len(calls) = 1
             /\ exec_rec = <<[command |-> "Update", flag |-> ReqFlag,
                              result |-> "NotAvailable"]>>
             /\ reply = reply_in
             /\ running
             /\ result = IF op = "apdu_call" THEN "ConditionsOfUseNotSatisfied"
                         ELSE "InvalidLength"

C2_Witness ==
    /\ Namespaced
    /\ Asks("Update")
    /\ ReqFlag = <<1>>
    /\ calls[1].ret = <<FALSE>>
    /\ result = "InvalidLength"

\* C3: an Update whose presence confirmation succeeds invokes exactly one
\* firmware-entry function, after the confirmation: the destructive one iff
\* the flag is present and equals 1, the normal one otherwise; reboot is not
\* invoked.
C3_UpdateVariant ==
    (Asks("Update") /\ PresenceAsked /\ calls[1].ret = <<TRUE>>) =>
        /\ Len(calls) = 2
        /\ calls[2].fn = IF ReqFlag = <<1>>
                         THEN "reboot_to_firmware_update_destructive"
                         ELSE "reboot_to_firmware_update"
        /\ result = "Diverged"
        /\ ~running

C3_Witness ==
    /\ Asks("Update")
    /\ ReqFlag = <<255>>
    /\ Len(calls) = 2
    /\ calls[1].ret = <<TRUE>>
    /\ calls[2].fn = "reboot_to_firmware_update"

\* C4: a request an adapter rejects never reaches exec: an unresolvable raw
\* code or inner byte gives InvalidCommand and ADMIN with an empty payload
\* gives InvalidLength on the vendor channel; an unresolvable instruction
\* gives InstructionNotSupportedOrInvalid on every interface.  Nothing is
\* invoked and the buffer is unchanged.
C4_RejectedNeverExecuted ==
    /\ (HasByte /\ ReqByte \notin Seven) =>
         /\ result = IF op = "apdu_call" THEN "InstructionNotSupportedOrInvalid"
                     ELSE "InvalidCommand"
         /\ Untouched
    /\ (Namespaced /\ req.data = << >>) =>
         /\ result = "InvalidLength"
         /\ Untouched

C4_Witness ==
    /\ op = "hid_call"
    /\ req.code = 1
    /\ req.data = <<1>>
    /\ Len(reply_in) > 0
    /\ result = "InvalidCommand"

\* The HidCommand a command byte stands for on the vendor channel
HidOf(b) == IF b = 8 THEN WINK ELSE Vendor(b)

\* C5: on the vendor channel, for each of the seven command bytes c and every
\* tail t, raw code c with payload t and ADMIN (0x72) with payload <<c>> \o t
\* select the same command and the same flag (the first byte of t, absent
\* when t is empty), and an outcome of one is an outcome of the other.
C5_NamespaceEqualsLegacy ==
    (op = "hid_call" /\ HasByte /\ ReqByte \in Seven) =>
        LET t == IF Namespaced THEN Tail(req.data) ELSE req.data
            other == IF Namespaced THEN <<HidOf(ReqByte), t>>
                     ELSE <<Vendor(114), <<ReqByte>> \o t>>
            sel == hid_select(other[1], other[2])
        IN  /\ sel.ok
            /\ Len(exec_rec) = 1
            /\ exec_rec[1].command = sel.val[1]
            /\ exec_rec[1].flag = sel.val[2]
            /\ exec_rec[1].command = CommandOfByte(ReqByte)
            /\ exec_rec[1].flag = (IF t = << >> THEN << >> ELSE <<t[1]>>)
            /\ LastOutcome \in hid_call(new_args, other[1], other[2], reply_in)

C5_Witness ==
    /\ Namespaced
    /\ req.data = <<81, 0, 1>>
    /\ Len(exec_rec) = 1
    /\ exec_rec[1].flag = <<0>>
    /\ Len(calls) = 2

\* C6: Command::try_from(u8) is total on 0..255: exactly the seven bytes
\* resolve, each to its own command, every other byte (0x72 and the other
\* standard HID commands included) gives UnsupportedCommand; the vendor
\* adapter advertises exactly the seven codes and 0x72.
C6_ResolverTotal ==
    /\ rbyte \in Seven => rcmd = [ok |-> TRUE, val |-> CommandOfByte(rbyte)]
    /\ rbyte \notin Seven => rcmd = [ok |-> FALSE, val |-> "UnsupportedCommand"]
    /\ \A b \in 0..255 :
         (rcmd.ok /\ Command_try_from_u8(b) = rcmd) => b = rbyte
    /\ rbyte \in commands <=> rbyte \in Seven \cup {114}
    /\ commands \subseteq 0..255

C6_Witness ==
    /\ rbyte = 114
    /\ rbyte \in commands
    /\ ~rcmd.ok

\* 16-bit halves on which the byte order of a version is also checked
Halves == {0, 1, 255, 256, 32768, 65535}

\* C7: with enough room in the buffer a successful dispatch appends exactly
\* the command's payload, on both channels and for every flag: Version the
\* four bytes of the version, most significant first; Uuid the 16 bytes given
\* at construction; Locked one byte, 1 iff locked() answered true; Rng the 57
\* bytes random_bytes(57) returned; Wink nothing, after one wink(10 s).
C7_Payloads ==
    /\ (Asks("Version") /\ Room >= 4) =>
         /\ result = "Ok" /\ AppendOnly /\ calls = << >>
         /\ Len(Appended) = 4
         /\ \A i \in 1..4 : Appended[i] \in 0..255
         /\ Appended[1] * 256 + Appended[2] = new_args.version.hi
         /\ Appended[3] * 256 + Appended[4] = new_args.version.lo
         /\ \A h \in Halves, l \in Halves :
              LET b == to_be_bytes([hi |-> h, lo |-> l]) IN
              /\ Len(b) = 4
              /\ \A i \in 1..4 : b[i] \in 0..255
              /\ b[1] * 256 + b[2] = h
              /\ b[3] * 256 + b[4] = l
    /\ (Asks("Uuid") /\ Room >= 16) =>
         /\ result = "Ok" /\ AppendOnly /\ calls = << >>
         /\ Appended = new_args.uuid
    /\ (Asks("Locked") /\ Room >= 1) =>
         /\ result = "Ok" /\ AppendOnly
         /\ Len(calls) = 1 /\ calls[1].fn = "locked"
         /\ Appended = <<IF calls[1].ret = <<TRUE>> THEN 1 ELSE 0>>
    /\ (Asks("Rng") /\ Room >= 57) =>
         /\ result = "Ok" /\ AppendOnly
         /\ Len(calls) = 1 /\ calls[1].fn = "random_bytes" /\ calls[1].arg = 57
         /\ Len(Appended) = 57
         /\ Appended = calls[1].ret
    /\ Asks("Wink") =>
         /\ result = "Ok" /\ reply = reply_in
         /\ Len(calls) = 1 /\ calls[1].fn = "wink" /\ calls[1].arg = 10

C7_Witness ==
    /\ op = "apdu_call"
    /\ Asks("Version")
    /\ new_args.version.hi = 65534
    /\ Len(reply_in) = Capacity - 4
    /\ Appended = <<255, 254, 1, 0>>

\* The payload the dispatch has to append
Payload ==
    CASE Asks("Version") -> to_be_bytes(new_args.version)
      [] Asks("Uuid") -> new_args.uuid
      [] Asks("Locked") -> <<IF calls[1].ret = <<TRUE>> THEN 1 ELSE 0>>
      [] Asks("Rng") -> calls[1].ret
      [] OTHER -> << >>

\* C8 as stated: the buffer is append-only and bounded across every dispatch,
\* and a payload that does not fit still gives success, the buffer keeping
\* the bytes that fit and dropping the rest.
C8_TruncatedToFit ==
    IsDispatch =>
        /\ AppendOnly
        /\ Len(reply) <= Capacity
        /\ Len(Payload) > Room =>
             /\ result = "Ok"
             /\ Appended = SubSeq(Payload, 1, Room)

\* C8 amended: the buffer is append-only and bounded across every dispatch,
\* and a payload that does not fit in the room left still gives success,
\* the whole payload being dropped: the buffer is left as it was.
C8_DroppedWhole ==
    IsDispatch =>
        /\ AppendOnly
        /\ Len(reply) <= Capacity
        /\ Len(Payload) > Room =>
             /\ result = "Ok"
             /\ reply = reply_in

C8_Witness ==
    /\ op = "hid_call"
    /\ Asks("Version")
    /\ Room = 3
    /\ result = "Ok"
    /\ reply = reply_in

\* C9: the endpoint keeps no state across calls: uuid and version stay those
\* given at construction, select succeeds and writes nothing, and the outcome
\* of a dispatch is an outcome the handler has for that call's inputs on the
\* endpoint as constructed.
C9_Stateless ==
    /\ uuid = new_args.uuid
    /\ version = new_args.version
    /\ op \in {"select", "deselect"} =>
         /\ result = "Ok"
         /\ Untouched
    /\ op = "hid_call" =>
         LastOutcome \in hid_call(new_args, HidCommand_try_from(req.code).val,
                                  req.data, reply_in)
    /\ op = "apdu_call" =>
         LastOutcome \in apdu_call(new_args, req.interface,
                                   [instruction |-> req.code, p1 |-> req.p1],
                                   reply_in)

C9_Witness ==
    /\ op = "select"
    /\ Len(reply_in) = Capacity - 4
    /\ reply = reply_in
    /\ result = "Ok"

\* C10: the Contact gate covers Reboot only.  An Update (instruction 0x51)
\* over another interface reaches exec and, once presence is confirmed,
\* invokes a firmware-entry function (the destructive one when p1 = 1);
\* presence is asked for Update and for nothing else, so a Reboot over the
\* vendor channel or over Contact invokes reboot without it.
C10_GateIsRebootOnly ==
    /\ (op = "apdu_call" /\ req.code = 81 /\ req.interface # "Contact") =>
         /\ Len(exec_rec) = 1
         /\ exec_rec[1].command = "Update"
         /\ PresenceAsked
         /\ calls[1].ret = <<TRUE>> =>
              /\ Len(calls) = 2
              /\ calls[2].fn = IF req.p1 = 1
                               THEN "reboot_to_firmware_update_destructive"
                               ELSE "reboot_to_firmware_update"
    /\ "confirm_user_present" \in CallNames => Asks("Update")
    /\ (Asks("Reboot") /\ (op = "hid_call" \/ req.interface = "Contact")) =>
         /\ Len(calls) = 1
         /\ calls[1].fn = "reboot"
         /\ result = "Diverged"
         /\ ~running

C10_Witness ==
    /\ op = "apdu_call"
    /\ req.code = 81
    /\ req.interface = "Contactless"
    /\ req.p1 = 1
    /\ Len(calls) = 2
    /\ calls[2].fn = "reboot_to_firmware_update_destructive"

====
